---------------------------- MODULE Spec2Model ----------------------------
(***************************************************************************)
(* A model of the Sponsors client (src/index.ts): a cache of sponsorships  *)
(* keyed by login, a shared pagination cursor and a has-next-page flag,    *)
(* and the lookup routine `find` that walks the paginated GraphQL source.  *)
(*                                                                         *)
(* JavaScript values are modelled as records tagged with their type, so    *)
(* that null, undefined, strings, booleans, functions and objects can be   *)
(* compared with one another.                                              *)
(***************************************************************************)
EXTENDS Integers, Sequences, FiniteSets, TLC

VARIABLES
  source,        \* the pages GitHub holds for the viewer (fixed per behaviour)
  options,       \* this.options            (index.ts:35)
  cached,        \* this.cached             (index.ts:37)
  cursor,        \* this.cursor             (index.ts:38)
  hasNextPage,   \* this.hasNextPage        (index.ts:39)
  pc,            \* per caller: where its call stands
  op,            \* per caller: the public method called
  arg,           \* per caller: the login passed
  sent,          \* per caller: cursors of the fetches issued by the call
  pre,           \* per caller: the client state when the call started
  result,        \* per caller: what the call's promise settled with
  prev,          \* the operation completed before the ones now on record
  lastFetched,   \* number of the page whose response was processed last
  processed,     \* a page has been processed since construction / flush
  fetches,       \* per page: responses processed since construction / flush
                 \* (0, 1, or 2 for more than one)
  overlapped,    \* a lookup has been started while another was suspended
  edgeIn,        \* the edge handed to sponsorshipFromEdge (decoder runs)
  decoded        \* what sponsorshipFromEdge returned for edgeIn

vars == << source, options, cached, cursor, hasNextPage, pc, op, arg, sent,
           pre, result, prev, lastFetched, processed, fetches,
           overlapped, edgeIn, decoded >>

client == << cached, cursor, hasNextPage >>

-----------------------------------------------------------------------------
(* Bounds of the model *)

\* the most records a source holds: for the one caller of SpecSeq, and for
\* the interleaved callers of Spec
MaxRecords == 3
MaxConcRecords == 2

-----------------------------------------------------------------------------
(* JavaScript values *)

Null == [type |-> "null"]
Undefined == [type |-> "undefined"]
Str(s) == [type |-> "string", value |-> s]
Bool(b) == [type |-> "boolean", value |-> b]
Rejected == [type |-> "error"]

\* `a || b`: a when a is truthy, b otherwise. The values that occur here are
\* strings, null and undefined, of which only non-empty strings are truthy.
Truthy(v) == v.type = "string" /\ v.value # ""
Or(a, b) == IF Truthy(a) THEN a ELSE b

\* Optional<T> and withdefault (utils.ts)
withdefault(fallback, value) ==
  IF value = Undefined \/ value = Null THEN fallback ELSE value

\* An object literal {} inherits the members of Object.prototype; of those,
\* "constructor" is also a well-formed account login.
ObjectConstructor == [type |-> "function", name |-> "Object"]
ObjectPrototypeKeys == {"constructor"}

\* `key in obj` for an object created by a literal: own or inherited.
In(key, obj) == key \in DOMAIN obj \/ key \in ObjectPrototypeKeys

\* `obj[key]`
Get(obj, key) ==
  IF key \in DOMAIN obj THEN obj[key]
  ELSE IF key \in ObjectPrototypeKeys THEN ObjectConstructor
  ELSE Undefined

\* `obj[key] = value`
Put(obj, key, value) ==
  [k \in DOMAIN obj \cup {key} |-> IF k = key THEN value ELSE obj[k]]

EmptyObject == [k \in {} |-> Null]

-----------------------------------------------------------------------------
(* The source: QueryResult, QueryResultEdge *)

Logins == {"alice", "jure", "constructor"}
Callers == {"p1", "p2"}

TierOf(n) ==
  [id |-> n, name |-> "tier", createdAt |-> "t0", description |-> "d",
   monthlyPriceInCents |-> 500]

\* sponsorEntity: null, or an object whose login and emails may be missing
Entity(login, userEmail, orgEmail) ==
  [type |-> "object", login |-> login, userEmail |-> userEmail,
   orgEmail |-> orgEmail]

Emails == {Undefined, Null, Str(""), Str("u@x"), Str("o@x")}

Entities ==
  {Null} \cup
  { Entity(l, u, o) : l \in {Undefined} \cup {Str(x) : x \in Logins},
                      u \in Emails \ {Str("o@x")}, o \in Emails \ {Str("u@x")} }

Edge(id, privacy, entity) ==
  [node |-> [id |-> id, createdAt |-> "c0", privacyLevel |-> privacy,
             tier |-> TierOf(id), sponsorEntity |-> entity]]

Edges == { Edge(1, p, e) : p \in {"PUBLIC", "PRIVATE"}, e \in Entities }

\* The entities the pages of the paginated source are built from: a deleted
\* sponsor (no entity) or a user with a login and a public email.
SourceEntities == {Null} \cup { Entity(Str(l), Str("u@x"), Undefined) : l \in Logins }

SeqsUpTo(S, n) == UNION { [1..k -> S] : k \in 0..n }

\* The records of the source in order. The query asks for pages of a fixed
\* size (`first:`), so every page but the last is full; the model lets the
\* size range over the sizes that matter for the records at hand. A source
\* without records answers with one empty page.
RecordSeqs(n) == SeqsUpTo(SourceEntities, n)

PageSizes(recs) == 1..(IF Len(recs) = 0 THEN 1 ELSE Len(recs))
PageCount(recs, size) ==
  IF Len(recs) = 0 THEN 1 ELSE (Len(recs) + size - 1) \div size
PageLen(recs, size, k) ==
  IF k * size <= Len(recs) THEN size ELSE Len(recs) - (k - 1) * size

\* Every edge of the source has an id of its own.
MkSource(recs, size) ==
  [k \in 1..PageCount(recs, size) |->
     [i \in 1..PageLen(recs, size, k) |->
        Edge((k - 1) * size + i, "PUBLIC", recs[(k - 1) * size + i])]]

Sources(n) ==
  UNION { { MkSource(recs, size) : size \in PageSizes(recs) } : recs \in RecordSeqs(n) }

NullCursor == 0
EndCursor(k) == k

\* octo.graphql(Sponsors.query, params): the page after params.cursor
Respond(src, after) ==
  LET k == after + 1 IN
  [viewer |-> [sponsorshipsAsMaintainer |->
     [pageInfo |-> [hasNextPage |-> k < Len(src), endCursor |-> EndCursor(k)],
      edges |-> src[k]]]]

-----------------------------------------------------------------------------
(* Decoding: Sponsors.sponsorshipFromEdge *)

\* edge.node.sponsorEntity?.login
EntityLogin(edge) ==
  LET e == edge.node.sponsorEntity IN
  IF e = Null \/ e = Undefined THEN Undefined ELSE e.login

\* Mutant: the two operands of || exchanged.
EntityEmailUserFirst(edge) ==
  LET e == edge.node.sponsorEntity IN
  IF e = Null \/ e = Undefined THEN Undefined ELSE Or(e.userEmail, e.orgEmail)

\* edge.node.sponsorEntity?.orgEmail || edge.node.sponsorEntity?.userEmail
EntityEmail(edge) ==
  LET e == edge.node.sponsorEntity IN
  IF e = Null \/ e = Undefined THEN Undefined ELSE Or(e.orgEmail, e.userEmail)

IsPublic(edge) == edge.node.privacyLevel = "PUBLIC"

sponsorshipFromEdge(edge) ==
  LET sponsor == EntityLogin(edge) IN
  IF sponsor = Null \/ sponsor = Undefined THEN Null
  ELSE [type |-> "object",
        id |-> edge.node.id,
        createdAt |-> edge.node.createdAt,
        sponsor |-> [login |-> sponsor, email |-> EntityEmail(edge)],
        public |-> IsPublic(edge),
        tier |-> [id |-> edge.node.tier.id,
                  createdAt |-> edge.node.tier.createdAt,
                  name |-> edge.node.tier.name,
                  description |-> edge.node.tier.description,
                  monthlyPriceInCents |-> edge.node.tier.monthlyPriceInCents]]

-----------------------------------------------------------------------------
(* One page of Sponsors.find *)

\* edges.map(...): the decoded edges, in order
Sponsorships(edges) == [i \in 1..Len(edges) |-> sponsorshipFromEdge(edges[i])]

RECURSIVE CacheFrom(_, _, _)
\* the assignments to this.cached made by the map callback, in edge order
CacheFrom(c, sps, i) ==
  IF i > Len(sps) THEN c
  ELSE CacheFrom(IF sps[i] # Null THEN Put(c, sps[i].sponsor.login.value, sps[i]) ELSE c,
                 sps, i + 1)

\* Mutant: the map callback does not write to the cache.
CacheNothing(c, sps) == c

\* Mutant: only the first record of a page is written to the cache.
CacheFirstOnly(c, sps) ==
  IF Len(sps) = 0 \/ sps[1] = Null THEN c
  ELSE Put(c, sps[1].sponsor.login.value, sps[1])

\* Mutant: the cache is replaced by the records of the page.
CachePageOnly(c, sps) == CacheFrom(EmptyObject, sps, 1)

CacheAll(c, sps) == CacheFrom(c, sps, 1)

\* s?.sponsor.login === login
Matches(s, login) == s # Null /\ s.sponsor.login = Str(login)

\* Mutant: the scan of a page ends at the first dropped record.
FindSponsorshipUntilNull(sps, login) ==
  LET nulls == { i \in 1..Len(sps) : sps[i] = Null }
      stop == IF nulls = {} THEN Len(sps) + 1
              ELSE CHOOSE i \in nulls : \A j \in nulls : i <= j
      hits == { i \in 1..(stop - 1) : Matches(sps[i], login) }
  IN IF hits = {} THEN Undefined
     ELSE sps[CHOOSE i \in hits : \A j \in hits : i <= j]

\* Mutant: the scan returns the last match of the page (findLast).
FindLastSponsorship(sps, login) ==
  LET hits == { i \in 1..Len(sps) : Matches(sps[i], login) } IN
  IF hits = {} THEN Undefined
  ELSE sps[CHOOSE i \in hits : \A j \in hits : i >= j]

\* sponsorships.find(...): the first match, undefined when there is none
FindSponsorship(sps, login) ==
  LET hits == { i \in 1..Len(sps) : Matches(sps[i], login) } IN
  IF hits = {} THEN Undefined
  ELSE sps[CHOOSE i \in hits : \A j \in hits : i <= j]

\* sponsorship !== null && sponsorship !== undefined
Found(sponsorship) == sponsorship # Null /\ sponsorship # Undefined

\* Mutant: the cache is read whatever the option says.
CacheHitIgnoringOption(login) == In(login, cached)

\* Mutant: the option is tested the wrong way round.
CacheHitInverted(login) == In(login, cached) /\ ~options.cache

\* the cache read at the head of find
CacheHit(login) == In(login, cached) /\ options.cache

\* Mutant: isSponsor compares with undefined instead of null.
SettleNotUndefined(o, value) ==
  IF o = "isSponsor" THEN Bool(value # Undefined) ELSE value

\* what the public method makes of the value find resolved with
Settle(o, value) == IF o = "isSponsor" THEN Bool(value # Null) ELSE value

-----------------------------------------------------------------------------
(* State of the callers *)

\* the client is in the state its constructor leaves it in
AsConstructed == cached = EmptyObject /\ cursor = NullCursor /\ hasNextPage

NoPre == [cached |-> EmptyObject, cursor |-> NullCursor, hasNextPage |-> TRUE,
          fresh |-> FALSE]
NoPrev == [kind |-> "none"]

\* the record of a completed call, kept until the next operation starts:
\* how it ended, what it sent, whether it found the client as constructed
\* and whether the cache held its login when it started
Summary(p) ==
  [kind |-> "call", pc |-> pc[p], op |-> op[p], arg |-> arg[p],
   result |-> result[p], sent |-> sent[p], fresh |-> pre[p].fresh,
   held |-> arg[p] \in DOMAIN pre[p].cached]

Completed(p) == pc[p] \in {"done", "failed"}

InitOn(sources) ==
  /\ source \in sources
  /\ \E c \in {Undefined, Bool(TRUE), Bool(FALSE)} :
       options = [cache |-> withdefault(Bool(TRUE), c).value]
  /\ cached = EmptyObject
  /\ cursor = NullCursor
  /\ hasNextPage = TRUE
  /\ pc = [p \in Callers |-> "idle"]
  /\ op = [p \in Callers |-> "none"]
  /\ arg = [p \in Callers |-> "none"]
  /\ sent = [p \in Callers |-> << >>]
  /\ pre = [p \in Callers |-> NoPre]
  /\ result = [p \in Callers |-> Undefined]
  /\ prev = NoPrev
  /\ lastFetched = 0
  /\ processed = FALSE
  /\ fetches = [k \in 1..Len(source) |-> 0]
  /\ overlapped = FALSE
  /\ edgeIn = Edge(1, "PUBLIC", Null)
  /\ decoded = Undefined

Init == InitOn(Sources(MaxConcRecords))
InitSeq == InitOn(Sources(MaxRecords))

\* Mutant: the loop is an if, a lookup gives up after one page.
LoopHeadSinglePage(p, o, hnp, cur, sentp) ==
  IF hnp /\ sentp = << >>
  THEN /\ pc' = [pc EXCEPT ![p] = "fetching"]
       /\ sent' = [sent EXCEPT ![p] = Append(sentp, cur)]
       /\ result' = [result EXCEPT ![p] = Undefined]
  ELSE /\ pc' = [pc EXCEPT ![p] = "done"]
       /\ sent' = [sent EXCEPT ![p] = sentp]
       /\ result' = [result EXCEPT ![p] = Settle(o, Null)]

\* The loop head `while (this.hasNextPage)` reached by caller p with the
\* client state (hnp, cur): either the next fetch is sent and the call is
\* suspended on it, or the loop ends and find returns null.
LoopHead(p, o, hnp, cur, sentp) ==
  IF hnp
  THEN /\ pc' = [pc EXCEPT ![p] = "fetching"]
       /\ sent' = [sent EXCEPT ![p] = Append(sentp, cur)]
       /\ result' = [result EXCEPT ![p] = Undefined]
  ELSE /\ pc' = [pc EXCEPT ![p] = "done"]
       /\ sent' = [sent EXCEPT ![p] = sentp]
       /\ result' = [result EXCEPT ![p] = Settle(o, Null)]

\* Mutant: every lookup starts its pagination at the first page.
StartFromBeginning(p, o, login) ==
  /\ pc[p] # "fetching"
  /\ op' = [op EXCEPT ![p] = o]
  /\ arg' = [arg EXCEPT ![p] = login]
  /\ pre' = [pre EXCEPT ![p] = [cached |-> cached, cursor |-> cursor,
                                hasNextPage |-> hasNextPage,
                                fresh |-> AsConstructed]]
  /\ overlapped' = (overlapped \/ \E q \in Callers \ {p} : pc[q] = "fetching")
  /\ IF CacheHit(login)
     THEN /\ pc' = [pc EXCEPT ![p] = "done"]
          /\ sent' = [sent EXCEPT ![p] = << >>]
          /\ result' = [result EXCEPT ![p] = Settle(o, Get(cached, login))]
     ELSE LoopHead(p, o, hasNextPage, NullCursor, << >>)
  /\ UNCHANGED << source, options, cached, cursor, hasNextPage, lastFetched,
                  processed, fetches, edgeIn, decoded >>

\* Mutant: a lookup is started only while no other lookup is suspended.
StartExclusive(p, o, login) ==
  /\ \A q \in Callers : pc[q] # "fetching"
  /\ op' = [op EXCEPT ![p] = o]
  /\ arg' = [arg EXCEPT ![p] = login]
  /\ pre' = [pre EXCEPT ![p] = [cached |-> cached, cursor |-> cursor,
                                hasNextPage |-> hasNextPage,
                                fresh |-> AsConstructed]]
  /\ overlapped' = overlapped
  /\ IF CacheHit(login)
     THEN /\ pc' = [pc EXCEPT ![p] = "done"]
          /\ sent' = [sent EXCEPT ![p] = << >>]
          /\ result' = [result EXCEPT ![p] = Settle(o, Get(cached, login))]
     ELSE LoopHead(p, o, hasNextPage, cursor, << >>)
  /\ UNCHANGED << source, options, cached, cursor, hasNextPage, lastFetched,
                  processed, fetches, edgeIn, decoded >>

\* getInfo(login) / isSponsor(login) up to the first await
Start(p, o, login) ==
  /\ pc[p] # "fetching"
  /\ op' = [op EXCEPT ![p] = o]
  /\ arg' = [arg EXCEPT ![p] = login]
  /\ pre' = [pre EXCEPT ![p] = [cached |-> cached, cursor |-> cursor,
                                hasNextPage |-> hasNextPage,
                                fresh |-> AsConstructed]]
  /\ overlapped' = (overlapped \/ \E q \in Callers \ {p} : pc[q] = "fetching")
  /\ IF CacheHit(login)
     THEN /\ pc' = [pc EXCEPT ![p] = "done"]
          /\ sent' = [sent EXCEPT ![p] = << >>]
          /\ result' = [result EXCEPT ![p] = Settle(o, Get(cached, login))]
     ELSE LoopHead(p, o, hasNextPage, cursor, << >>)
  /\ UNCHANGED << source, options, cached, cursor, hasNextPage, lastFetched,
                  processed, fetches, edgeIn, decoded >>

\* a call of the one caller whose operations follow one another: the call it
\* completed before goes on record as the previous operation
Call(p, o, login) ==
  /\ Start(p, o, login)
  /\ prev' = IF Completed(p) THEN Summary(p) ELSE prev

\* Mutant: the page info is stored only when the scan of the page found
\* nothing.
FetchResolveUpdatesAfterScan(p) ==
  /\ pc[p] = "fetching"
  /\ LET after == sent[p][Len(sent[p])]
         res == Respond(source, after)
         pageInfo == res.viewer.sponsorshipsAsMaintainer.pageInfo
         edges == res.viewer.sponsorshipsAsMaintainer.edges
         sponsorships == Sponsorships(edges)
         sponsorship == FindSponsorship(sponsorships, arg[p])
     IN /\ cached' = CacheAll(cached, sponsorships)
        /\ lastFetched' = after + 1
        /\ processed' = TRUE
        /\ fetches' = [fetches EXCEPT ![after + 1] = IF @ = 0 THEN 1 ELSE 2]
        /\ IF Found(sponsorship)
           THEN /\ pc' = [pc EXCEPT ![p] = "done"]
                /\ result' = [result EXCEPT ![p] = Settle(op[p], sponsorship)]
                /\ sent' = sent
                /\ UNCHANGED << hasNextPage, cursor >>
           ELSE /\ hasNextPage' = pageInfo.hasNextPage
                /\ cursor' = pageInfo.endCursor
                /\ LoopHead(p, op[p], pageInfo.hasNextPage, pageInfo.endCursor, sent[p])
  /\ UNCHANGED << source, options, op, arg, pre, prev, overlapped,
                  edgeIn, decoded >>

\* the fetch of caller p resolves: lines 113-138, then the loop head again
FetchResolve(p) ==
  /\ pc[p] = "fetching"
  /\ LET after == sent[p][Len(sent[p])]
         res == Respond(source, after)
         pageInfo == res.viewer.sponsorshipsAsMaintainer.pageInfo
         edges == res.viewer.sponsorshipsAsMaintainer.edges
         sponsorships == Sponsorships(edges)
         sponsorship == FindSponsorship(sponsorships, arg[p])
     IN /\ hasNextPage' = pageInfo.hasNextPage
        /\ cursor' = pageInfo.endCursor
        /\ cached' = CacheAll(cached, sponsorships)
        /\ lastFetched' = after + 1
        /\ processed' = TRUE
        /\ fetches' = [fetches EXCEPT ![after + 1] = IF @ = 0 THEN 1 ELSE 2]
        /\ IF Found(sponsorship)
           THEN /\ pc' = [pc EXCEPT ![p] = "done"]
                /\ result' = [result EXCEPT ![p] = Settle(op[p], sponsorship)]
                /\ sent' = sent
           ELSE LoopHead(p, op[p], pageInfo.hasNextPage, pageInfo.endCursor, sent[p])
  /\ UNCHANGED << source, options, op, arg, pre, prev, overlapped,
                  edgeIn, decoded >>

\* Mutant: a failed fetch also ends the pagination.
FetchFailEndsPagination(p) ==
  /\ pc[p] = "fetching"
  /\ pc' = [pc EXCEPT ![p] = "failed"]
  /\ result' = [result EXCEPT ![p] = Rejected]
  /\ hasNextPage' = FALSE
  /\ UNCHANGED << source, options, cached, cursor, op, arg, sent,
                  pre, prev, lastFetched, processed, fetches,
                  overlapped, edgeIn, decoded >>

\* Mutant: a failed fetch sets the pagination back to the first page.
FetchFailRewinds(p) ==
  /\ pc[p] = "fetching"
  /\ pc' = [pc EXCEPT ![p] = "failed"]
  /\ result' = [result EXCEPT ![p] = Rejected]
  /\ cursor' = NullCursor
  /\ UNCHANGED << source, options, cached, hasNextPage, op, arg, sent,
                  pre, prev, lastFetched, processed, fetches,
                  overlapped, edgeIn, decoded >>

\* the fetch of caller p throws: the rejection leaves find and the wrapper
FetchFail(p) ==
  /\ pc[p] = "fetching"
  /\ pc' = [pc EXCEPT ![p] = "failed"]
  /\ result' = [result EXCEPT ![p] = Rejected]
  /\ UNCHANGED << source, options, cached, cursor, hasNextPage, op, arg, sent,
                  pre, prev, lastFetched, processed, fetches,
                  overlapped, edgeIn, decoded >>

\* what flush() does to the records of the calls: those completed end
ForgetCompleted ==
  /\ pc' = [p \in Callers |-> IF Completed(p) THEN "idle" ELSE pc[p]]
  /\ op' = [p \in Callers |-> IF Completed(p) THEN "none" ELSE op[p]]
  /\ arg' = [p \in Callers |-> IF Completed(p) THEN "none" ELSE arg[p]]
  /\ sent' = [p \in Callers |-> IF Completed(p) THEN << >> ELSE sent[p]]
  /\ pre' = [p \in Callers |-> IF Completed(p) THEN NoPre ELSE pre[p]]
  /\ result' = [p \in Callers |-> IF Completed(p) THEN Undefined ELSE result[p]]

\* Mutant: flush forgets to reset the cursor.
ResetKeepsCursor ==
  /\ cached' = EmptyObject
  /\ hasNextPage' = TRUE
  /\ processed' = FALSE
  /\ fetches' = [k \in 1..Len(source) |-> 0]
  /\ ForgetCompleted
  /\ UNCHANGED << source, options, cursor, lastFetched, overlapped, edgeIn,
                  decoded >>

\* flush()
Reset ==
  /\ cached' = EmptyObject
  /\ cursor' = NullCursor
  /\ hasNextPage' = TRUE
  /\ processed' = FALSE
  /\ fetches' = [k \in 1..Len(source) |-> 0]
  /\ ForgetCompleted
  /\ UNCHANGED << source, options, lastFetched, overlapped, edgeIn, decoded >>

\* flush() between the calls of the one caller: it goes on record as the
\* previous operation, with the logins the cache held
Flush ==
  /\ Reset
  /\ prev' = [kind |-> "flush", keys |-> DOMAIN cached]

Methods == {"getInfo", "isSponsor"}

\* Any interleaving of the callers' operations. With several callers there
\* is no one previous operation, and none is recorded.
ConcCall == \E p \in Callers, o \in Methods, login \in Logins :
              Start(p, o, login) /\ UNCHANGED prev
ConcResolve == \E p \in Callers : FetchResolve(p)
ConcFail == \E p \in Callers : FetchFail(p)
ConcFlush == Reset /\ UNCHANGED prev

Next == ConcCall \/ ConcResolve \/ ConcFail \/ ConcFlush

Spec == Init /\ [][Next]_vars

\* the same callers on a client whose flush() is never called
NextNoFlush == ConcCall \/ ConcResolve \/ ConcFail

SpecNoFlush == Init /\ [][NextNoFlush]_vars

\* One caller whose operations do not overlap: each starts after the one
\* before it has completed.
Quiet == \A p \in Callers : pc[p] # "fetching"

SeqCall == \E o \in Methods, login \in Logins : Call("p1", o, login)
SeqResolve == FetchResolve("p1")
SeqFail == FetchFail("p1")
SeqFlush == Quiet /\ Flush

NextSeq == SeqCall \/ SeqResolve \/ SeqFail \/ SeqFlush

SpecSeq == InitSeq /\ [][NextSeq]_vars

\* The decoder alone, on every shape of edge.
InitDecode ==
  /\ source = MkSource(<< >>, 1)
  /\ options = [cache |-> TRUE]
  /\ cached = EmptyObject
  /\ cursor = NullCursor
  /\ hasNextPage = TRUE
  /\ pc = [p \in Callers |-> "idle"]
  /\ op = [p \in Callers |-> "none"]
  /\ arg = [p \in Callers |-> "none"]
  /\ sent = [p \in Callers |-> << >>]
  /\ pre = [p \in Callers |-> NoPre]
  /\ result = [p \in Callers |-> Undefined]
  /\ prev = NoPrev
  /\ lastFetched = 0
  /\ processed = FALSE
  /\ fetches = [k \in 1..Len(source) |-> 0]
  /\ overlapped = FALSE
  /\ edgeIn \in Edges
  /\ decoded = Undefined

Decode ==
  /\ decoded = Undefined
  /\ decoded' = sponsorshipFromEdge(edgeIn)
  /\ UNCHANGED << source, options, cached, cursor, hasNextPage, pc, op, arg,
                  sent, pre, result, prev, lastFetched, processed,
                  fetches, overlapped, edgeIn >>

NextEdge ==
  /\ decoded # Undefined
  /\ edgeIn' \in Edges
  /\ decoded' = Undefined
  /\ UNCHANGED << source, options, cached, cursor, hasNextPage, pc, op, arg,
                  sent, pre, result, prev, lastFetched, processed,
                  fetches, overlapped >>

NextDecode == Decode \/ NextEdge

SpecDecode == InitDecode /\ [][NextDecode]_vars

-----------------------------------------------------------------------------
(* What a lookup that runs to completion does, as one step *)

RECURSIVE Traverse(_, _, _, _)
\* the while loop of find from the state (c, cur, hnp), every fetch resolving
Traverse(c, cur, hnp, login) ==
  IF ~hnp THEN [ret |-> Null, cached |-> c, cursor |-> cur, hasNextPage |-> hnp]
  ELSE LET res == Respond(source, cur)
           pageInfo == res.viewer.sponsorshipsAsMaintainer.pageInfo
           sps == Sponsorships(res.viewer.sponsorshipsAsMaintainer.edges)
           s == FindSponsorship(sps, login)
       IN IF Found(s)
          THEN [ret |-> s, cached |-> CacheAll(c, sps),
                cursor |-> pageInfo.endCursor, hasNextPage |-> pageInfo.hasNextPage]
          ELSE Traverse(CacheAll(c, sps), pageInfo.endCursor, pageInfo.hasNextPage, login)

\* getInfo(login) called in the client state st
GetInfoIn(st, login) ==
  IF In(login, st.cached) /\ options.cache
  THEN [ret |-> Get(st.cached, login), cached |-> st.cached,
        cursor |-> st.cursor, hasNextPage |-> st.hasNextPage]
  ELSE Traverse(st.cached, st.cursor, st.hasNextPage, login)

RECURSIVE CacheThrough(_, _, _)
\* the cache c after the pages from + 1 .. to have been processed
CacheThrough(c, from, to) ==
  IF from >= to THEN c
  ELSE CacheThrough(
         CacheAll(c, Sponsorships(Respond(source, from).viewer.sponsorshipsAsMaintainer.edges)),
         from + 1, to)

\* the logins that occur on some page of the source
SourceLogins ==
  { l \in Logins : \E k \in 1..Len(source) : \E i \in 1..Len(source[k]) :
       EntityLogin(source[k][i]) = Str(l) }

Last(q) == q[Len(q)]
IsRecord(v) == v.type = "object"

-----------------------------------------------------------------------------
(* Claims *)

\* C1: for every login that occurs on some page, a completed getInfo(login)
\* returns a Sponsorship whose sponsor.login is that login, and not the absent
\* value, whatever the cache option and whatever calls came before.
C1_GetInfoFindsPresentLogin ==
  \A p \in Callers :
    (pc[p] = "done" /\ op[p] = "getInfo" /\ arg[p] \in SourceLogins)
      => /\ IsRecord(result[p])
         /\ result[p].sponsor.login = Str(arg[p])

\* C2: for every login that occurs on no page, a completed getInfo(login)
\* returns the absent value, after at most as many fetches as pages remained
\* after the position the call started from.
C2_GetInfoAbsentLoginNull ==
  \A p \in Callers :
    (pc[p] = "done" /\ op[p] = "getInfo" /\ arg[p] \notin SourceLogins)
      => /\ result[p] = Null
         /\ Len(sent[p]) <= Len(source) - pre[p].cursor

C4_CachedGetInfoIdempotent ==
  \A p \in Callers :
    (pc[p] = "done" /\ op[p] = "getInfo" /\ options.cache
       /\ arg[p] \in DOMAIN pre[p].cached)
      => /\ result[p] = pre[p].cached[arg[p]]
         /\ sent[p] = << >>
         /\ client = << pre[p].cached, pre[p].cursor, pre[p].hasNextPage >>
         /\ (prev.kind = "call" /\ prev.pc = "done" /\ prev.op = "getInfo"
               /\ prev.arg = arg[p] /\ prev.held)
              => /\ prev.result = result[p]
                 /\ prev.sent = << >>

C4_Witness ==
  /\ pc["p1"] = "done" /\ op["p1"] = "getInfo" /\ options.cache
  /\ arg["p1"] \in DOMAIN pre["p1"].cached
  /\ prev.kind = "call" /\ prev.pc = "done" /\ prev.op = "getInfo"
  /\ prev.arg = arg["p1"] /\ prev.held
  /\ IsRecord(result["p1"])

\* C5: on a client constructed with cache: false, every getInfo(login), also
\* for a login stored in the cache, skips the cache read and traverses from
\* the shared pagination position; a record it returns comes from the page it
\* fetched last, never from the cache.
C5_CacheDisabledAlwaysTraverses ==
  \A p \in Callers :
    (~options.cache /\ op[p] = "getInfo" /\ pc[p] # "idle")
      => /\ pre[p].hasNextPage => (sent[p] # << >> /\ sent[p][1] = pre[p].cursor)
         /\ (pc[p] = "done" /\ ~pre[p].hasNextPage)
              => (sent[p] = << >> /\ result[p] = Null)
         /\ (pc[p] = "done" /\ result[p] # Null)
              => /\ sent[p] # << >>
                 /\ \E i \in 1..Len(source[Last(sent[p]) + 1]) :
                      result[p] = sponsorshipFromEdge(source[Last(sent[p]) + 1][i])

C5_Witness ==
  /\ ~options.cache /\ op["p1"] = "getInfo" /\ pc["p1"] = "done"
  /\ arg["p1"] \in DOMAIN pre["p1"].cached
  /\ pre["p1"].hasNextPage
  /\ IsRecord(result["p1"])

\* C6: flush() leaves the client in its initial state (cache empty, cursor
\* absent, has-more-pages true), and the next lookup after it for a login that
\* was cached before issues at least one fetch, the first with an absent cursor.
C6_FlushResets ==
  /\ (prev.kind = "flush" /\ \A p \in Callers : pc[p] = "idle")
       => client = << EmptyObject, NullCursor, TRUE >>
  /\ \A p \in Callers :
       (prev.kind = "flush" /\ pc[p] # "idle" /\ arg[p] \in prev.keys)
         => (sent[p] # << >> /\ sent[p][1] = NullCursor)

\* C7: when a fetch fails the call fails, the fetch is not sent again within
\* the call, and cache, cursor and has-more-pages flag are as the last
\* processed page left them; a later lookup that misses the cache sends its
\* first fetch for the same page.
C7_FetchFailurePropagates ==
  \A p \in Callers :
    /\ pc[p] = "failed" =>
         /\ result[p] = Rejected
         /\ \A i \in 1..Len(sent[p]) : sent[p][i] = pre[p].cursor + i - 1
         /\ cursor = Last(sent[p])
         /\ hasNextPage = TRUE
         /\ cached = CacheThrough(pre[p].cached, pre[p].cursor, Last(sent[p]))
    /\ (prev.kind = "call" /\ prev.pc = "failed" /\ pc[p] # "idle"
          /\ ~(options.cache /\ In(arg[p], pre[p].cached)))
         => (sent[p] # << >> /\ sent[p][1] = Last(prev.sent))

C7_Witness ==
  /\ pc["p1"] = "failed" /\ Len(sent["p1"]) = 2
  /\ prev.kind = "call" /\ prev.pc = "failed"

\* C8: fresh client, caching enabled, page 1 = [alice] and page 2 = [jure]:
\* getInfo("jure") sends two fetches, with the absent cursor and with page 1's
\* end cursor, leaves alice and jure in the cache and returns jure's record;
\* the getInfo("alice") that follows returns alice's cached record without a
\* fetch.
Scenario8 ==
  MkSource(<< Entity(Str("alice"), Str("u@x"), Undefined),
              Entity(Str("jure"), Str("u@x"), Undefined) >>, 1)

C8_TwoPageScenario ==
  \A p \in Callers :
    (source = Scenario8 /\ options.cache /\ pc[p] = "done" /\ op[p] = "getInfo") =>
      /\ (pre[p].fresh /\ arg[p] = "jure") =>
           /\ sent[p] = << NullCursor, EndCursor(1) >>
           /\ DOMAIN cached = {"alice", "jure"}
           /\ result[p] = sponsorshipFromEdge(Scenario8[2][1])
           /\ result[p].sponsor.login = Str("jure")
      /\ (arg[p] = "alice" /\ prev.kind = "call" /\ prev.pc = "done"
            /\ prev.op = "getInfo" /\ prev.arg = "jure" /\ prev.fresh) =>
           /\ sent[p] = << >>
           /\ result[p] = sponsorshipFromEdge(Scenario8[1][1])
           /\ result[p].sponsor.login = Str("alice")

C8_Witness ==
  /\ source = Scenario8 /\ options.cache
  /\ pc["p1"] = "done" /\ op["p1"] = "getInfo" /\ arg["p1"] = "alice"
  /\ prev.kind = "call" /\ prev.pc = "done" /\ prev.op = "getInfo"
  /\ prev.arg = "jure" /\ prev.fresh /\ Len(prev.sent) = 2

\* C9 (as claimed): the decoded email is the organization-level email
\* whenever that field is present on the record, otherwise the user-level
\* email, otherwise absent.
Present(v) == v # Undefined /\ v # Null

C9_EmailOrgWheneverPresent ==
  IsRecord(decoded) =>
    LET e == edgeIn.node.sponsorEntity
        email == decoded.sponsor.email
    IN /\ Present(e.orgEmail) => email = e.orgEmail
       /\ (~Present(e.orgEmail) /\ Present(e.userEmail)) => email = e.userEmail
       /\ (~Present(e.orgEmail) /\ ~Present(e.userEmail)) => ~Present(email)

\* C9 (amended): the decoded email is the organization-level email whenever
\* that field is present and not the empty string, also when the user-level
\* email is present; otherwise the user-level email; otherwise absent.
PresentNonEmpty(v) == Present(v) /\ v # Str("")

C9_EmailOrgWhenNonEmpty ==
  IsRecord(decoded) =>
    LET e == edgeIn.node.sponsorEntity
        email == decoded.sponsor.email
    IN /\ PresentNonEmpty(e.orgEmail) => email = e.orgEmail
       /\ (~PresentNonEmpty(e.orgEmail) /\ Present(e.userEmail)) => email = e.userEmail
       /\ (~PresentNonEmpty(e.orgEmail) /\ ~Present(e.userEmail)) => ~Present(email)

C9_Witness ==
  /\ IsRecord(decoded)
  /\ edgeIn.node.sponsorEntity.orgEmail = Str("o@x")
  /\ edgeIn.node.sponsorEntity.userEmail = Str("u@x")
  /\ decoded.sponsor.email = Str("o@x")

\* C10 (as claimed): the has-more-pages flag is false if and only if the page
\* fetched most recently reported no further pages, and the cursor is the end
\* cursor of the page processed last (absent when none has been processed
\* since construction or the last flush).
ReportedNext(k) ==
  Respond(source, k - 1).viewer.sponsorshipsAsMaintainer.pageInfo.hasNextPage

CursorAfterLastProcessed ==
  cursor = IF processed THEN EndCursor(lastFetched) ELSE NullCursor

C10_FlagIffLastFetchedPage ==
  /\ ~hasNextPage <=> (lastFetched # 0 /\ ~ReportedNext(lastFetched))
  /\ CursorAfterLastProcessed

\* C10 (amended): the has-more-pages flag is false if and only if a page has
\* been fetched since construction or the last flush and the page fetched
\* most recently reported no further pages; the cursor as claimed.
C10_FlagIffLastFetchedSinceFlush ==
  /\ ~hasNextPage <=> (processed /\ ~ReportedNext(lastFetched))
  /\ CursorAfterLastProcessed

C10_Witness ==
  /\ prev.kind = "flush" /\ pc["p1"] = "done"
  /\ processed /\ ~hasNextPage /\ cursor = EndCursor(2)

-----------------------------------------------------------------------------

\* the login occurs on page k of the source
OnPage(login, k) ==
  \E i \in 1..Len(source[k]) : EntityLogin(source[k][i]) = Str(login)

\* the value a lookup settles with when it found nothing
Absent(v) == v = Null \/ v = Bool(FALSE)

\* the call of caller p did not take its answer from the cache
MissedCache(p) == ~(options.cache /\ In(arg[p], pre[p].cached))

\* C11: a lookup never fetches beyond a page its target is on; when it has
\* found its target by fetching, on page k, the cursor is page k's end cursor
\* and the flag is what page k reported, also when page k reported more
\* pages; and the next lookup that misses the cache sends its first fetch
\* with page k's end cursor when page k reported more pages, and sends none
\* when it did not.
C11_FoundStopsAfterPageUpdate ==
  /\ \A p \in Callers : \A i \in 1..(Len(sent[p]) - 1) :
        ~OnPage(arg[p], sent[p][i] + 1)
  /\ \A p \in Callers :
        (pc[p] = "done" /\ sent[p] # << >> /\ ~Absent(result[p]))
          => LET k == Last(sent[p]) + 1 IN
             /\ OnPage(arg[p], k)
             /\ cursor = EndCursor(k)
             /\ hasNextPage = ReportedNext(k)
  /\ \A p \in Callers :
        (/\ pc[p] # "idle" /\ MissedCache(p)
         /\ prev.kind = "call" /\ prev.pc = "done"
         /\ prev.sent # << >> /\ ~Absent(prev.result))
          => LET k == Last(prev.sent) + 1 IN
             IF ReportedNext(k)
             THEN sent[p] # << >> /\ sent[p][1] = EndCursor(k)
             ELSE sent[p] = << >>

\* a lookup found its target on page 2 of 3, and the next one, missing the
\* cache, has sent its first fetch with the end cursor of page 2
C11_Witness ==
  /\ prev.kind = "call" /\ prev.pc = "done" /\ ~Absent(prev.result)
  /\ prev.sent = << NullCursor, EndCursor(1) >>
  /\ Len(source) = 3
  /\ pc["p1"] # "idle" /\ MissedCache("p1")
  /\ sent["p1"][1] = EndCursor(2)

-----------------------------------------------------------------------------

\* C12: in calls that follow one another, without a flush since the pages
\* were counted and for either cache setting, the first fetch of a lookup is
\* sent with the cursor the client held when the lookup started, which is the
\* position the previous lookup left (after its last page when it completed,
\* before the page whose fetch failed when it was rejected), and no page of
\* the source has been fetched successfully more than once.
C12_NoPageFetchedTwice ==
  /\ \A p \in Callers : sent[p] # << >> => sent[p][1] = pre[p].cursor
  /\ \A p \in Callers :
        (pc[p] # "idle" /\ sent[p] # << >> /\ prev.kind = "call" /\ prev.sent # << >>)
          => sent[p][1] = IF prev.pc = "done" THEN EndCursor(Last(prev.sent) + 1)
                          ELSE Last(prev.sent)
  /\ \A k \in 1..Len(source) : fetches[k] <= 1

\* with the cache disabled, two lookups have between them fetched each of
\* three pages once
C12_Witness ==
  /\ ~options.cache /\ Len(source) = 3
  /\ \A k \in 1..Len(source) : fetches[k] = 1
  /\ prev.kind = "call" /\ prev.sent # << >>
  /\ sent["p1"] # << >> /\ sent["p1"][1] # NullCursor

-----------------------------------------------------------------------------

\* edges without a sponsor entity, or whose entity has no login
LoginlessEdges ==
  { Edge(1, "PUBLIC", e) :
      e \in {Null, Entity(Undefined, Str("u@x"), Str("o@x")),
             Entity(Null, Str("u@x"), Undefined)} }

\* the decoded records of the source that were not dropped
SourceSponsorships ==
  UNION { { sponsorshipFromEdge(source[k][i]) : i \in 1..Len(source[k]) } :
            k \in 1..Len(source) } \ {Null}

\* C13: a record without sponsor entity or without login decodes to null;
\* every cache entry is the decoded form of a record of the source that has
\* the login it is filed under; a getInfo that answered from a fetched page
\* returns null or such a record with the queried login; and the dropped
\* records stop nothing: every login on a page fetched since the last flush
\* is cached, a lookup that ended on a page holding its target found it, and
\* a lookup that ended on a page without its target ended on the last page.
C13_DroppedRecordsSkipped ==
  /\ \A e \in LoginlessEdges : sponsorshipFromEdge(e) = Null
  /\ \A l \in DOMAIN cached :
        cached[l] \in SourceSponsorships /\ cached[l].sponsor.login = Str(l)
  /\ \A p \in Callers :
        (pc[p] = "done" /\ op[p] = "getInfo" /\ sent[p] # << >> /\ result[p] # Null)
          => result[p] \in SourceSponsorships /\ result[p].sponsor.login = Str(arg[p])
  /\ \A k \in 1..Len(source) : \A l \in Logins :
        (fetches[k] >= 1 /\ OnPage(l, k)) => l \in DOMAIN cached
  /\ \A p \in Callers :
        (pc[p] = "done" /\ sent[p] # << >>)
          => LET k == Last(sent[p]) + 1 IN
             IF OnPage(arg[p], k) THEN ~Absent(result[p])
             ELSE Absent(result[p]) /\ k = Len(source) /\ ~hasNextPage

\* the first page starts with a record without sponsor entity; the login
\* after it on that page is cached, and the lookup went on to the second
\* page and found its target there
C13_Witness ==
  /\ Len(source) = 2 /\ Len(source[1]) = 2
  /\ source[1][1].node.sponsorEntity = Null
  /\ EntityLogin(source[1][2]) = Str("alice")
  /\ "alice" \in DOMAIN cached
  /\ pc["p1"] = "done" /\ op["p1"] = "getInfo" /\ arg["p1"] = "jure"
  /\ sent["p1"] = << NullCursor, EndCursor(1) >>
  /\ IsRecord(result["p1"])

-----------------------------------------------------------------------------

\* the pages fetched successfully since construction or the last flush
FetchedPages == { k \in 1..Len(source) : fetches[k] >= 1 }

\* the decoded records with login l on the fetched pages
FetchedRecords(l) ==
  UNION { { sponsorshipFromEdge(source[k][i]) :
              i \in { j \in 1..Len(source[k]) : EntityLogin(source[k][j]) = Str(l) } } :
          k \in FetchedPages }

\* C14: with either cache setting, the cache holds an entry for exactly the
\* logins that occur on the pages fetched successfully since construction or
\* the last flush, wherever on the page they stand, and the entry of a login
\* is a record of that login from those pages (the one latest in the source).
C14_EveryFetchedLoginCached ==
  \A l \in Logins :
    IF FetchedRecords(l) = {} THEN l \notin DOMAIN cached
    ELSE /\ l \in DOMAIN cached
         /\ cached[l] \in FetchedRecords(l)
         /\ \A r \in FetchedRecords(l) : r.id <= cached[l].id

\* on a client constructed with cache: false a lookup found its target in the
\* first record of a page, and the login of the record after it is cached
C14_Witness ==
  /\ ~options.cache
  /\ Len(source[1]) >= 2
  /\ EntityLogin(source[1][1]) = Str("jure")
  /\ EntityLogin(source[1][2]) = Str("alice")
  /\ pc["p1"] = "done" /\ arg["p1"] = "jure" /\ sent["p1"] = << NullCursor >>
  /\ "alice" \in DOMAIN cached

-----------------------------------------------------------------------------

\* what flush() leaves behind
FlushEffect ==
  cached' = EmptyObject /\ cursor' = NullCursor /\ hasNextPage' /\ ~processed'

\* C15: every step either is a flush, which empties the cache, or keeps
\* every login that was in the cache; an entry whose value changes in a step
\* that is not a flush is replaced by a record of the same login from the
\* source.
C15_CacheGrowsBetweenFlushes ==
  [][\/ FlushEffect
     \/ /\ DOMAIN cached \subseteq DOMAIN cached'
        /\ \A l \in DOMAIN cached :
              cached'[l] # cached[l]
                => /\ cached'[l] \in SourceSponsorships
                   /\ cached'[l].sponsor.login = Str(l)]_vars

\* the cache holds two logins, and the entry of one of them has been
\* overwritten by the later of its two records
C15_Witness ==
  /\ Len(source) = 3
  /\ EntityLogin(source[1][1]) = Str("jure")
  /\ EntityLogin(source[3][1]) = Str("jure")
  /\ DOMAIN cached = {"alice", "jure"}
  /\ cached["jure"] = sponsorshipFromEdge(source[3][1])

-----------------------------------------------------------------------------

\* C16: nothing keeps a lookup from starting while another lookup of the
\* same client is suspended on a fetch: whenever one caller is suspended,
\* every method can be started by the other caller with every login, and a
\* lookup that has sent its first fetch sent it with the cursor the client
\* held when the lookup started. (The state with the same page requested
\* twice is C16_Witness.)
C16_NoMutualExclusion ==
  /\ \A p \in Callers : \A q \in Callers \ {p} :
        (pc[p] = "fetching" /\ pc[q] # "fetching")
          => \A o \in Methods, l \in Logins :
               ENABLED (Start(q, o, l) /\ UNCHANGED prev)
  /\ \A q \in Callers :
        (pc[q] = "fetching" /\ Len(sent[q]) = 1) => sent[q][1] = pre[q].cursor

\* the second lookup started while the first was suspended, and both are
\* suspended on a fetch of the same page, sent with the same cursor
C16_Witness ==
  /\ overlapped
  /\ pc["p1"] = "fetching" /\ pc["p2"] = "fetching"
  /\ Last(sent["p1"]) = Last(sent["p2"])

-----------------------------------------------------------------------------

\* C17: on a client with caching enabled whose flush() is never called, with
\* two callers whose lookups overlap and whose fetches resolve in any order,
\* a completed lookup for a login that occurs in the source never settles
\* with the absent value (null, or false for isSponsor); whenever the cursor
\* is the end cursor of page k every login of the pages 1..k is in the
\* cache, and whenever has-more-pages is false every login of the source is.
C17_PresentLoginNeverAbsent ==
  options.cache =>
    /\ \A p \in Callers :
          (pc[p] = "done" /\ arg[p] \in SourceLogins) => ~Absent(result[p])
    /\ \A j \in 1..cursor : \A l \in Logins :
          OnPage(l, j) => l \in DOMAIN cached
    /\ ~hasNextPage => SourceLogins \subseteq DOMAIN cached

\* two overlapping lookups for logins of the source have completed, the
\* response for the first page was processed after that for the second
C17_Witness ==
  /\ options.cache /\ overlapped
  /\ Len(source) = 2 /\ fetches[2] >= 1 /\ cursor = EndCursor(1)
  /\ \A p \in Callers :
        pc[p] = "done" /\ arg[p] \in SourceLogins /\ sent[p] # << >>

-----------------------------------------------------------------------------

\* C18: on a client with caching enabled, flush() may come while a lookup
\* is suspended on a fetch; once no lookup is suspended the client is as a
\* reset followed by lookups leaves it: every login of the pages up to the
\* cursor is in the cache, and every login of the source is when
\* has-more-pages is false; and a completed getInfo for a login that occurs
\* in the source did not return null.
C18_FlushDuringLookupHolds ==
  options.cache =>
    /\ Quiet =>
          /\ \A j \in 1..cursor : \A l \in Logins :
                OnPage(l, j) => l \in DOMAIN cached
          /\ ~hasNextPage => SourceLogins \subseteq DOMAIN cached
    /\ \A p \in Callers :
          (pc[p] = "done" /\ op[p] = "getInfo" /\ arg[p] \in SourceLogins)
            => result[p] # Null

-----------------------------------------------------------------------------

\* the step leaves the pagination position where it was or further on
PositionKept == cursor' >= cursor /\ (~hasNextPage => ~hasNextPage')

\* C19: with two callers whose lookups may overlap and whose fetches resolve
\* in any order, every step that is not a flush leaves the cursor at the end
\* of the same or a later page and does not take has-more-pages from false
\* back to true.
C19_PositionNeverMovesBack ==
  [][FlushEffect \/ PositionKept]_vars

\* C19 (amended): the same, for the steps up to the first start of a lookup
\* while another lookup is suspended on a fetch.
C19_PositionNeverMovesBackUnlessOverlap ==
  [][FlushEffect \/ overlapped' \/ PositionKept]_vars

\* no lookup was started while another was suspended; both callers have
\* completed lookups that fetched, and the position is the end of page 2
C19_Witness ==
  /\ ~overlapped
  /\ \A p \in Callers : pc[p] = "done" /\ sent[p] # << >>
  /\ cursor = EndCursor(2) /\ ~hasNextPage

-----------------------------------------------------------------------------

\* the places of the records with login l on page k
Hits(l, k) == { i \in 1..Len(source[k]) : EntityLogin(source[k][i]) = Str(l) }

\* the call of caller p is a getInfo that found its target by fetching
FoundByFetching(p) ==
  pc[p] = "done" /\ op[p] = "getInfo" /\ sent[p] # << >> /\ result[p] # Null

\* the previous call was a getInfo that found its target by fetching, and
\* the call of caller p is a getInfo for the same login answered with the
\* cache enabled
CachedRepeat(p) ==
  /\ prev.kind = "call" /\ prev.pc = "done" /\ prev.op = "getInfo"
  /\ prev.sent # << >> /\ prev.result # Null
  /\ pc[p] = "done" /\ op[p] = "getInfo" /\ arg[p] = prev.arg
  /\ options.cache

\* C20: when a getInfo has found its target by fetching, the record it
\* returned is the record the cache holds for the login, and a getInfo for
\* the same login that follows immediately with the cache enabled returns
\* the identical record without fetching, whatever the pages contain.
C20_ReturnedIsCached ==
  /\ \A p \in Callers :
        FoundByFetching(p)
          => arg[p] \in DOMAIN cached /\ cached[arg[p]] = result[p]
  /\ \A p \in Callers :
        CachedRepeat(p) => sent[p] = << >> /\ result[p] = prev.result

\* C20 (amended): a getInfo that found its target by fetching returned the
\* first record with the login on the page it stopped at, and the cache
\* holds the last record with the login on that page, which is what a
\* getInfo for the same login that follows immediately with the cache
\* enabled returns without fetching; the two are the same record when the
\* page has one record with the login.
C20_ReturnedFirstCachedLast ==
  /\ \A p \in Callers :
        FoundByFetching(p)
          => LET hits == Hits(arg[p], Last(sent[p]) + 1)
                 page == source[Last(sent[p]) + 1]
             IN /\ hits # {}
                /\ \A i \in hits :
                      /\ (\A j \in hits : i <= j)
                           => result[p] = sponsorshipFromEdge(page[i])
                      /\ (\A j \in hits : i >= j)
                           => /\ arg[p] \in DOMAIN cached
                              /\ cached[arg[p]] = sponsorshipFromEdge(page[i])
  /\ \A p \in Callers :
        CachedRepeat(p)
          => LET hits == Hits(prev.arg, Last(prev.sent) + 1)
                 page == source[Last(prev.sent) + 1]
             IN /\ sent[p] = << >>
                /\ \A i \in hits :
                      (\A j \in hits : i >= j)
                        => result[p] = sponsorshipFromEdge(page[i])
                /\ Cardinality(hits) = 1 => result[p] = prev.result

\* a page holds two records with the login jure: the getInfo that fetched
\* it returned the first, the cached getInfo after it returned the second
C20_Witness ==
  /\ CachedRepeat("p1")
  /\ arg["p1"] = "jure"
  /\ Cardinality(Hits("jure", Last(prev.sent) + 1)) = 2
  /\ prev.result.id < result["p1"].id

=============================================================================
